---- MODULE Spec2Model ----
(***************************************************************************)
(* Weekly workout-plan lifecycle of the fitness backend: plan creation     *)
(* with deactivation of the overlapping plan (save_ai_workout_plan), the   *)
(* schedule entry state machine (start_workout_session,                    *)
(* log_workout_completion), the routine swap (swap_routine_mappings), the   *)
(* plan lookup with generation on a miss (get_user_workout_plan_by_date),  *)
(* the goal replacement (set_user_goal) and the statistics read            *)
(* (get_user_stats).                                                       *)
(* The store is modelled as its committed tables; every operation is one   *)
(* transaction and so one step.                                            *)
(***************************************************************************)
EXTENDS Integers, Sequences, FiniteSets, TLC

\* ---------------------------------------------------------------- bounds
MaxPlans == 3        \* rows of workout_plans the model creates
MaxEntries == 2      \* rows of weekly_schedule the model creates
MaxRoutines == 1     \* rows of routines the model creates
MaxHistory == 1      \* rows of daily_user_workout_routine_history
MaxDay == 7          \* last calendar day the clock reaches
FirstDay == 6        \* calendar day at Init (day 0 is a Monday, so 6 is a Sunday)
MaxStatsHistory == 3 \* completion records in the statistics runs
StatsDay == 2        \* calendar day at Init of the statistics runs

\* The tables are explored in separate runs, each capping the row counts
\* differently, so that the reachable states are the union and not the product
\* of the cases: many plans over two weeks without sessions; one plan with
\* several routines; one plan with several sessions; one plan with two
\* sessions and a completion;
\* one plan with one session and repeated completions; two plans with sessions;
\* one plan without sessions next to a goals table that is not empty.
\* goals names the goals and users tables the run starts with (GoalsAtStart,
\* UsersAtStart).
Quotas ==
  { [plans |-> MaxPlans, routines |-> 0, entries |-> 0, history |-> 0,
     lastDay |-> MaxDay, goals |-> "none"],
    [plans |-> 1, routines |-> MaxRoutines, entries |-> 2,
     history |-> 0, lastDay |-> FirstDay, goals |-> "none"],
    [plans |-> 1, routines |-> 1, entries |-> MaxEntries,
     history |-> 0, lastDay |-> FirstDay, goals |-> "none"],
    [plans |-> 1, routines |-> 1, entries |-> 2,
     history |-> 1, lastDay |-> FirstDay, goals |-> "none"],
    [plans |-> 1, routines |-> 1, entries |-> 1,
     history |-> MaxHistory, lastDay |-> FirstDay, goals |-> "none"],
    [plans |-> 2, routines |-> 1, entries |-> 2,
     history |-> 0, lastDay |-> FirstDay, goals |-> "none"],
    [plans |-> 1, routines |-> 0, entries |-> 0,
     history |-> 0, lastDay |-> MaxDay, goals |-> "replaced"],
    [plans |-> 1, routines |-> 0, entries |-> 0,
     history |-> 0, lastDay |-> FirstDay, goals |-> "partial"],
    [plans |-> 1, routines |-> 0, entries |-> 0,
     history |-> 0, lastDay |-> FirstDay, goals |-> "unmeasured"] }

\* the statistics runs: completion records only, over the days up to StatsDay + 1
StatsQuotas ==
  { [plans |-> 0, routines |-> 0, entries |-> 0, history |-> MaxStatsHistory,
     lastDay |-> StatsDay + 1, goals |-> g] : g \in {"none", "replaced", "partial"} }

\* ------------------------------------------------------------ null values
NULL == -1           \* Python None / SQL NULL for integer, date and float columns
NoneStr == "<None>"  \* Python None where a string is expected

\* ------------------------------------------------------------------ enums
\* ScheduleStatus: member name -> value
ScheduleStatus ==
  [n \in {"PENDING", "STARTED", "COMPLETED", "SKIPPED", "SWAPPED"} |->
     CASE n = "PENDING" -> "pending"
       [] n = "STARTED" -> "started"
       [] n = "COMPLETED" -> "completed"
       [] n = "SKIPPED" -> "skipped"
       [] n = "SWAPPED" -> "swapped"]

\* DayOfWeek: member name -> value
DayOfWeek ==
  [n \in {"MONDAY", "TUESDAY", "WEDNESDAY", "THURSDAY", "FRIDAY", "SATURDAY", "SUNDAY"} |->
     CASE n = "MONDAY" -> "Monday"
       [] n = "TUESDAY" -> "Tuesday"
       [] n = "WEDNESDAY" -> "Wednesday"
       [] n = "THURSDAY" -> "Thursday"
       [] n = "FRIDAY" -> "Friday"
       [] n = "SATURDAY" -> "Saturday"
       [] n = "SUNDAY" -> "Sunday"]

\* ----------------------------------------------------------------- inputs
Users == {1, 2}                       \* rows of the users table
UserIdInputs == {1, 2, 3}             \* user_id of a completion request (3: no such user)
PlanOwners == {NULL, 0, 1, 2}         \* user_id of a generator response (None and 0: missing)
RoutineNames == {"Push", "Legs"}      \* routine names the generator uses

\* weekly_schedule items of a generator response: day_of_week, routine_name
\* and status as the strings (or None) the response carries
ScheduleItems ==
  { [day_of_week |-> "sunday", routine_name |-> "Push",  status |-> "pending"],
    [day_of_week |-> "Funday", routine_name |-> NoneStr, status |-> "skipped"],
    [day_of_week |-> NoneStr,  routine_name |-> "Legs",  status |-> "Completed"] }

WeightInputs == {NULL, 70}            \* today_weight: None, 70.0
PlanIdInputs == {1}                   \* plan_id of a completion request (stored as given)
RoutineIdInputs == {1}                \* routine_id of a completion request (stored as given)

\* WeightKg of the users at Init; CurrentWeight is the value a later request
\* reads for that attribute: the users table has a WeightKg column and no
\* CurrentWeight column, so nothing is stored for it
InitialWeight == 60
InitialHeight == 170                  \* HeightCm of the users at Init

\* the numbers of a goal request: no_of_workout_days_in_week, target_weight and
\* target_duration_in_weeks, all given or all None
FullGoal == [NoOfWorkoutDaysInWeek |-> 3, TargetWeight |-> 65, TargetDurationInWeeks |-> 8]
EmptyGoal == [NoOfWorkoutDaysInWeek |-> NULL, TargetWeight |-> NULL,
              TargetDurationInWeeks |-> NULL]
GoalPayloads == {FullGoal, EmptyGoal}
TargetDates == {0, 6, 7, 14}          \* target_date of a plan request: this week, the next, a later one

\* all sequences over S of length at most n
SeqsUpTo(S, n) == UNION {[1..k -> S] : k \in 0..n}

\* str.upper() on the strings the model feeds in
Upper(s) ==
  CASE s = "sunday" -> "SUNDAY"
    [] s = "Funday" -> "FUNDAY"
    [] s = "pending" -> "PENDING"
    [] s = "Completed" -> "COMPLETED"
    [] s = "bogus" -> "BOGUS"
    [] s = "skipped" -> "SKIPPED"
    [] s = "MONDAY" -> "MONDAY"
    [] s = "tuesDay" -> "TUESDAY"
    [] s = " friday" -> " FRIDAY"
    [] s = "Started" -> "STARTED"

\* faulty variant: the day is looked up as written
ParseDayAsWritten(s) ==
  IF s \in DOMAIN DayOfWeek THEN DayOfWeek[s] ELSE DayOfWeek["MONDAY"]

\* DayOfWeek[day_of_week_str.upper()], MONDAY on KeyError / AttributeError
ParseDay(s) ==
  IF s = NoneStr THEN DayOfWeek["MONDAY"]
  ELSE IF Upper(s) \in DOMAIN DayOfWeek THEN DayOfWeek[Upper(s)]
  ELSE DayOfWeek["MONDAY"]

\* ScheduleStatus[status_str.upper()], PENDING on KeyError / AttributeError
ParseStatus(s) ==
  IF s = NoneStr THEN ScheduleStatus["PENDING"]
  ELSE IF Upper(s) \in DOMAIN ScheduleStatus THEN ScheduleStatus[Upper(s)]
  ELSE ScheduleStatus["PENDING"]

\* date.weekday(): 0 = Monday .. 6 = Sunday
Weekday(d) == d % 7

\* start_date = today - timedelta(days=weekday)
WeekStart(d) == d - Weekday(d)

\* end_date = start_date + timedelta(days=6)
WeekEnd(d) == WeekStart(d) + 6

\* Python truthiness of an Optional number: None and 0 are falsy
Truthy(x) == x # NULL /\ x # 0

\* Goal(UserId, GoalType, NoOfWorkoutDaysInWeek, TargetWeight, initial_weight,
\* TargetDurationInWeeks, WorkoutEquipment, Remarks, Active)
NewGoal(goal_id, user_id, payload, initial_weight, active) ==
  [GoalId |-> goal_id, UserId |-> user_id,
   NoOfWorkoutDaysInWeek |-> payload.NoOfWorkoutDaysInWeek,
   TargetWeight |-> payload.TargetWeight, initial_weight |-> initial_weight,
   TargetDurationInWeeks |-> payload.TargetDurationInWeeks, Active |-> active]

\* the goals table a run starts with: empty; user 1 with a replaced goal and
\* its active successor next to user 2 with a goal that is no longer active;
\* user 2 with an active goal that names no numbers; user 1 with an active goal
GoalsAtStart(kind) ==
  CASE kind = "none" -> <<>>
    [] kind = "replaced" ->
         <<NewGoal(1, 1, FullGoal, NULL, FALSE),
           NewGoal(2, 1, FullGoal, NULL, TRUE),
           NewGoal(3, 2, FullGoal, NULL, FALSE)>>
    [] kind = "partial" ->
         <<NewGoal(1, 2, EmptyGoal, NULL, TRUE)>>
    [] kind = "unmeasured" ->
         <<NewGoal(1, 1, FullGoal, NULL, TRUE)>>

\* the users table a run starts with: both users with height and weight, or
\* user 1 as signed up, before the profile is filled in
UsersAtStart(kind) ==
  [u \in Users |->
     IF kind = "unmeasured" /\ u = 1
       THEN [HeightCm |-> NULL, WeightKg |-> NULL, CurrentWeight |-> NULL]
       ELSE [HeightCm |-> InitialHeight, WeightKg |-> InitialWeight,
             CurrentWeight |-> NULL]]

\* the requests that may run at the same time, and a request that is not running
Procs == {1, 2}
NoTxn == [op |-> "idle", result |-> "none", schedule_id |-> NULL, user_id |-> NULL,
          plan_id |-> NULL, routine_id |-> NULL, today_weight |-> NULL,
          existing |-> NULL]

\* ------------------------------------------------------------------ state
VARIABLES
  today,      \* datetime.now().date() / date.today()
  users,      \* users table: UserId -> row
  plans,      \* workout_plans table, index = PlanId
  routines,   \* routines table, index = RoutineId
  schedule,   \* weekly_schedule table, index = ScheduleId
  history,    \* daily_user_workout_routine_history table, index = its id
  goals,      \* goals table, index = GoalId
  last,       \* the last request: operation, outcome
  txn,        \* the requests in flight: what each has read and not yet written
  quota       \* the row caps of this run (never changes)

vars == <<today, users, plans, routines, schedule, history, goals, last, txn, quota>>

\* last: op and result of the request, what it returned (ret1, ret2; for a plan
\* request the plan_id and user_id of the returned view, or the user_id of
\* the request when it failed), for
\* a swap the ids it was given (sid1, sid2) and the routine ids it captured
\* before the update (cap1, cap2), for a plan request whether it called the
\* plan generator (generated), and for a statistics request the three values
\* of the returned dictionary
NoCall ==
  [op |-> "none", result |-> "none", ret1 |-> NULL, ret2 |-> NULL,
   sid1 |-> NULL, sid2 |-> NULL, cap1 |-> NULL, cap2 |-> NULL,
   generated |-> FALSE,
   isGoalSet |-> FALSE, liveStreak |-> 0, YesterdayMissedWorkout |-> FALSE]

Init ==
  /\ quota \in Quotas
  /\ today = FirstDay
  /\ users = UsersAtStart(quota.goals)
  /\ plans = <<>>
  /\ routines = <<>>
  /\ schedule = <<>>
  /\ history = <<>>
  /\ last = NoCall
  /\ goals = GoalsAtStart(quota.goals)
  /\ txn = [p \in Procs |-> NoTxn]

\* the calendar moves on between requests
Tick ==
  /\ today < quota.lastDay
  /\ today' = today + 1
  /\ UNCHANGED <<users, plans, routines, schedule, history, goals, last, txn, quota>>

\* ------------------------------------------------- save_ai_workout_plan
\* faulty variant: the two date comparisons the wrong way round
OverlapsInverted(p, user_id, start_date, end_date) ==
  /\ p.UserId = user_id
  /\ p.IsActive = TRUE
  /\ p.StartDate >= end_date
  /\ p.EndDate <= start_date

\* the filter of the existing-plan query: same user, active, ranges intersect
Overlaps(p, user_id, start_date, end_date) ==
  /\ p.UserId = user_id
  /\ p.IsActive = TRUE
  /\ p.StartDate <= end_date
  /\ p.EndDate >= start_date

\* faulty variant: the found plan is left active
DeactivateNothing(ps, existing) == ps

\* existing_plan.IsActive = False on the row the query returned (NULL: no row)
Deactivate(ps, existing) ==
  IF existing = NULL THEN ps
  ELSE [ps EXCEPT ![existing].IsActive = FALSE]

\* WorkoutPlan(UserId, GeneratedByAI, StartDate, EndDate, PlanVersion, Overview)
\* with the column defaults (IsActive = True, CreatedAt = now())
NewPlan(plan_id, user_id, start_date, end_date) ==
  [PlanId |-> plan_id, UserId |-> user_id, StartDate |-> start_date,
   EndDate |-> end_date, IsActive |-> TRUE, PlanVersion |-> 1, CreatedAt |-> plan_id]

\* Step 2: one Routines row per generated routine, ids in insertion order
NewRoutines(plan_id, base, names) ==
  [i \in 1..Len(names) |->
     [RoutineId |-> base + i, PlanId |-> plan_id, RoutineName |-> names[i]]]

\* routine_name_to_id.get(routine_name): a later routine of the same name
\* overwrites the earlier key
RoutineNameToId(base, names, routine_name) ==
  LET hits == {i \in 1..Len(names) : names[i] = routine_name}
  IN IF hits = {} THEN NULL
     ELSE base + (CHOOSE i \in hits : \A j \in hits : j <= i)

\* WeeklySchedule(PlanId, DayOfWeek, RoutineId, Status, IsRestDay)
NewEntry(schedule_id, plan_id, item, routine_id) ==
  [ScheduleId |-> schedule_id, PlanId |-> plan_id,
   DayOfWeek |-> ParseDay(item.day_of_week), RoutineId |-> routine_id,
   Status |-> ParseStatus(item.status), CompletedAt |-> NULL,
   UserFeedback |-> NULL, IsRestDay |-> (routine_id = NULL)]

\* Step 3: one WeeklySchedule row per generated schedule item
NewEntries(plan_id, sbase, rbase, names, items) ==
  [i \in 1..Len(items) |->
     NewEntry(sbase + i, plan_id, items[i],
              RoutineNameToId(rbase, names, items[i].routine_name))]

\* user_id missing: ValueError before any write
SaveRejected(user_id) ==
  /\ ~Truthy(user_id)
  /\ last' = [NoCall EXCEPT !.op = "save", !.result = "value_error"]
  /\ UNCHANGED <<today, users, plans, routines, schedule, history, goals, txn, quota>>

\* the whole transaction: deactivate the overlapping plan the query returned,
\* insert the plan, its routines and its schedule, commit
SaveCommitted(user_id, names, items) ==
  LET start_date == WeekStart(today)
      end_date == WeekEnd(today)
      matches == {i \in 1..Len(plans) : Overlaps(plans[i], user_id, start_date, end_date)}
      plan_id == Len(plans) + 1
  IN /\ Truthy(user_id)
     /\ Len(plans) < quota.plans
     /\ \E existing \in (IF matches = {} THEN {NULL} ELSE matches) :
          plans' = Append(Deactivate(plans, existing),
                          NewPlan(plan_id, user_id, start_date, end_date))
     /\ routines' = routines \o NewRoutines(plan_id, Len(routines), names)
     /\ schedule' = schedule \o NewEntries(plan_id, Len(schedule), Len(routines), names, items)
     /\ last' = [NoCall EXCEPT !.op = "save", !.result = "ok", !.ret1 = plan_id]
     /\ UNCHANGED <<today, users, history, goals, txn, quota>>

\* faulty variant: the deactivation flushed before the exception stays
SaveAbortedAfterFlush(user_id) ==
  LET matches == {i \in 1..Len(plans) :
                    Overlaps(plans[i], user_id, WeekStart(today), WeekEnd(today))}
  IN /\ Truthy(user_id)
     /\ \E existing \in (IF matches = {} THEN {NULL} ELSE matches) :
          /\ plans' = Deactivate(plans, existing)
          /\ last' = [NoCall EXCEPT !.op = "save", !.result = "error", !.cap1 = existing]
     /\ UNCHANGED <<today, users, routines, schedule, history, goals, txn, quota>>

\* an exception after the first writes were flushed (the response carries no
\* iterable routines or weekly_schedule, a routine that cannot be serialised,
\* a statement the database refuses): the commit is never reached and the
\* finally clause closes the session, which rolls the transaction back.
\* cap1 remembers the plan whose deactivation had been flushed.
SaveAborted(user_id) ==
  LET matches == {i \in 1..Len(plans) :
                    Overlaps(plans[i], user_id, WeekStart(today), WeekEnd(today))}
  IN /\ Truthy(user_id)
     /\ \E existing \in (IF matches = {} THEN {NULL} ELSE matches) :
          /\ plans' = plans
          /\ last' = [NoCall EXCEPT !.op = "save", !.result = "error", !.cap1 = existing]
     /\ UNCHANGED <<today, users, routines, schedule, history, goals, txn, quota>>

SaveAiWorkoutPlan ==
  \/ \E user_id \in PlanOwners : SaveRejected(user_id)
  \/ \E user_id \in PlanOwners : SaveAborted(user_id)
  \/ \E user_id \in PlanOwners :
       \E names \in SeqsUpTo(RoutineNames, quota.routines - Len(routines)) :
         \E items \in SeqsUpTo(ScheduleItems, quota.entries - Len(schedule)) :
           SaveCommitted(user_id, names, items)

\* schedule ids a caller passes: every existing id and one that does not exist
ScheduleIdInputs == 1..(Len(schedule) + 1)

\* schedule ids of a swap request: every existing id and two that do not exist
SwapIdInputs == 1..(Len(schedule) + 2)

\* db.query(WeeklySchedule).filter(ScheduleId == schedule_id).first() found a row
Exists(schedule_id) == schedule_id \in 1..Len(schedule)

\* ------------------------------------------------- start_workout_session
\* faulty variant: only a pending session may be started
StartAllowedPendingOnly(status) == status = ScheduleStatus["PENDING"]

\* the status guard: the session may be started
StartAllowed(status) == status # ScheduleStatus["COMPLETED"]

\* faulty variant: starting also stamps the row as finished
StartedAndStamped(row) ==
  [row EXCEPT !.Status = ScheduleStatus["STARTED"], !.CompletedAt = 0]

\* schedule.Status = ScheduleStatus.STARTED
Started(row) == [row EXCEPT !.Status = ScheduleStatus["STARTED"]]

\* faulty variant: a restart of an entry drops the records of its earlier completion
StartWorkoutSessionClearingHistory(schedule_id) ==
  /\ Exists(schedule_id)
  /\ StartAllowed(schedule[schedule_id].Status)
  /\ schedule' = [schedule EXCEPT ![schedule_id] = Started(@)]
  /\ history' = SelectSeq(history, LAMBDA r : r.ScheduleId # schedule_id)
  /\ last' = [NoCall EXCEPT !.op = "start", !.result = "ok",
                            !.ret1 = schedule[schedule_id].ScheduleId]
  /\ UNCHANGED <<today, users, plans, routines, goals, txn, quota>>

StartWorkoutSession(schedule_id) ==
  LET call == [NoCall EXCEPT !.op = "start"]
  IN IF ~Exists(schedule_id)
       THEN /\ last' = [call EXCEPT !.result = "not_found"]
            /\ UNCHANGED <<today, users, plans, routines, schedule, history, goals, txn, quota>>
     ELSE IF ~StartAllowed(schedule[schedule_id].Status)
       THEN /\ last' = [call EXCEPT !.result = "invalid_state"]
            /\ UNCHANGED <<today, users, plans, routines, schedule, history, goals, txn, quota>>
     ELSE /\ schedule' = [schedule EXCEPT ![schedule_id] = Started(@)]
          /\ last' = [call EXCEPT !.result = "ok", !.ret1 = schedule[schedule_id].ScheduleId]
          /\ UNCHANGED <<today, users, plans, routines, history, goals, txn, quota>>

\* ------------------------------------------------ log_workout_completion
\* faulty variant: a session that was never started may be completed
CompleteAllowedFromPending(status) ==
  status \in {ScheduleStatus["STARTED"], ScheduleStatus["PENDING"]}

\* the status guard: the session may be completed
CompleteAllowed(status) == status = ScheduleStatus["STARTED"]

\* DailyUserWorkoutRoutineHistory(PlanId, RoutineId, ScheduleId, UserId, Date,
\* IsCompleted, TodayWeight, WorkoutNotes)
NewHistory(id, schedule_id, user_id, plan_id, routine_id, today_weight, day) ==
  [UserWorkoutRoutineHistoryId |-> id, PlanId |-> plan_id, RoutineId |-> routine_id,
   ScheduleId |-> schedule_id, UserId |-> user_id, Date |-> day,
   IsCompleted |-> TRUE, TodayWeight |-> today_weight]

\* user.CurrentWeight = today_weight; db.add(user): the users table has no
\* CurrentWeight column (only WeightKg), so the assignment sets an attribute
\* the unit of work does not map and the commit writes nothing of it
UserAfterWeight(row, today_weight) == row

\* schedule.Status = COMPLETED; schedule.CompletedAt = datetime.now()
Completed(row, now) ==
  [row EXCEPT !.Status = ScheduleStatus["COMPLETED"], !.CompletedAt = now]

\* faulty variant: the schedule row is looked up before the user, and the
\* request is refused
LogWorkoutCompletionScheduleFirst(schedule_id, user_id, plan_id, routine_id, today_weight) ==
  /\ last' = [NoCall EXCEPT
                !.op = "complete",
                !.result = IF ~Exists(schedule_id) THEN "not_found"
                           ELSE IF user_id \notin DOMAIN users THEN "user_not_found"
                           ELSE "invalid_state"]
  /\ UNCHANGED <<today, users, plans, routines, schedule, history, goals, txn, quota>>

LogWorkoutCompletion(schedule_id, user_id, plan_id, routine_id, today_weight) ==
  LET call == [NoCall EXCEPT !.op = "complete"]
  IN IF user_id \notin DOMAIN users
       THEN /\ last' = [call EXCEPT !.result = "user_not_found"]
            /\ UNCHANGED <<today, users, plans, routines, schedule, history, goals, txn, quota>>
     ELSE IF ~Exists(schedule_id)
       THEN /\ last' = [call EXCEPT !.result = "not_found"]
            /\ UNCHANGED <<today, users, plans, routines, schedule, history, goals, txn, quota>>
     ELSE IF ~CompleteAllowed(schedule[schedule_id].Status)
       THEN /\ last' = [call EXCEPT !.result = "invalid_state"]
            /\ UNCHANGED <<today, users, plans, routines, schedule, history, goals, txn, quota>>
     ELSE /\ Len(history) < quota.history
          /\ history' = Append(history,
                 NewHistory(Len(history) + 1, schedule_id, user_id, plan_id,
                            routine_id, today_weight, today))
          /\ users' = IF Truthy(today_weight)
                        THEN [users EXCEPT ![user_id] = UserAfterWeight(@, today_weight)]
                        ELSE users
          /\ schedule' = [schedule EXCEPT ![schedule_id] = Completed(@, today)]
          /\ last' = [call EXCEPT !.result = "ok", !.ret1 = Len(history) + 1]
          /\ UNCHANGED <<today, plans, routines, goals, txn, quota>>

\* ------------------------------------------------- swap_routine_mappings
\* faulty variant: no capture: the second assignment reads the row already overwritten
SwappedNoCapture(sch, schedule_id_1, schedule_id_2) ==
  LET s1 == [sch EXCEPT ![schedule_id_1].RoutineId = sch[schedule_id_2].RoutineId,
                        ![schedule_id_1].Status = ScheduleStatus["SWAPPED"]]
  IN [s1 EXCEPT ![schedule_id_2].RoutineId = s1[schedule_id_1].RoutineId,
                ![schedule_id_2].Status = ScheduleStatus["SWAPPED"]]

\* faulty variant: only the first row receives the other row's routine
SwappedFirstOnly(sch, schedule_id_1, schedule_id_2) ==
  LET s1 == [sch EXCEPT ![schedule_id_1].RoutineId = sch[schedule_id_2].RoutineId,
                        ![schedule_id_1].Status = ScheduleStatus["SWAPPED"]]
  IN [s1 EXCEPT ![schedule_id_2].Status = ScheduleStatus["SWAPPED"]]

\* faulty variant: delete and reinsert: the two rows come back under fresh ids
SwappedReinserted(sch, schedule_id_1, schedule_id_2) ==
  LET routine_id_1 == sch[schedule_id_1].RoutineId
      routine_id_2 == sch[schedule_id_2].RoutineId
      s1 == [sch EXCEPT ![schedule_id_1].RoutineId = routine_id_2,
                        ![schedule_id_1].Status = ScheduleStatus["SWAPPED"],
                        ![schedule_id_1].ScheduleId = Len(sch) + 1]
  IN [s1 EXCEPT ![schedule_id_2].RoutineId = routine_id_1,
                ![schedule_id_2].Status = ScheduleStatus["SWAPPED"],
                ![schedule_id_2].ScheduleId = Len(sch) + 2]

\* both rows updated in place with the routine ids captured before the update
Swapped(sch, schedule_id_1, schedule_id_2) ==
  LET routine_id_1 == sch[schedule_id_1].RoutineId
      routine_id_2 == sch[schedule_id_2].RoutineId
      s1 == [sch EXCEPT ![schedule_id_1].RoutineId = routine_id_2,
                        ![schedule_id_1].Status = ScheduleStatus["SWAPPED"]]
  IN [s1 EXCEPT ![schedule_id_2].RoutineId = routine_id_1,
                ![schedule_id_2].Status = ScheduleStatus["SWAPPED"]]

\* faulty variant: the second id is looked up first, and the request is refused
SwapRoutineMappingsSecondFirst(schedule_id_1, schedule_id_2) ==
  /\ last' = [NoCall EXCEPT
                !.op = "swap", !.result = "not_found",
                !.ret1 = IF ~Exists(schedule_id_2) THEN schedule_id_2 ELSE schedule_id_1]
  /\ UNCHANGED <<today, users, plans, routines, schedule, history, goals, txn, quota>>

SwapRoutineMappings(schedule_id_1, schedule_id_2) ==
  LET call == [NoCall EXCEPT !.op = "swap"]
  IN IF ~Exists(schedule_id_1)
       THEN /\ last' = [call EXCEPT !.result = "not_found", !.ret1 = schedule_id_1]
            /\ UNCHANGED <<today, users, plans, routines, schedule, history, goals, txn, quota>>
     ELSE IF ~Exists(schedule_id_2)
       THEN /\ last' = [call EXCEPT !.result = "not_found", !.ret1 = schedule_id_2]
            /\ UNCHANGED <<today, users, plans, routines, schedule, history, goals, txn, quota>>
     ELSE /\ schedule' = Swapped(schedule, schedule_id_1, schedule_id_2)
          /\ last' = [call EXCEPT !.result = "ok",
                                   !.sid1 = schedule_id_1, !.sid2 = schedule_id_2,
                                   !.cap1 = schedule[schedule_id_1].RoutineId,
                                   !.cap2 = schedule[schedule_id_2].RoutineId,
                                   !.ret1 = schedule'[schedule_id_1].ScheduleId,
                                   !.ret2 = schedule'[schedule_id_2].ScheduleId]
          /\ UNCHANGED <<today, users, plans, routines, history, goals, txn, quota>>

\* --------------------------------------------------------- get_user_stats
\* get_active_user_goal: the rows the filter UserId == user_id, Active == True keeps
ActiveGoals(gs, user_id) ==
  {i \in 1..Len(gs) : gs[i].UserId = user_id /\ gs[i].Active = TRUE}

\* faulty variant: the history query without its UserId filter
CompletedOnAnyUser(h, user_id, day) ==
  \E i \in 1..Len(h) : h[i].Date = day /\ h[i].IsCompleted = TRUE

\* the history query (UserId == user_id, Date == day, IsCompleted == True)
\* .first() returned a row
CompletedOn(h, user_id, day) ==
  \E i \in 1..Len(h) :
    h[i].UserId = user_id /\ h[i].Date = day /\ h[i].IsCompleted = TRUE

\* the while loop: live_streak += 1 and current_date -= 1 day for as long as
\* the query finds a row
RECURSIVE LiveStreakFrom(_, _, _)
LiveStreakFrom(h, user_id, current_date) ==
  IF CompletedOn(h, user_id, current_date)
    THEN 1 + LiveStreakFrom(h, user_id, current_date - 1)
    ELSE 0

\* faulty variant: the second query looks at today
YesterdayIsToday(d) == d

\* yesterday = date.today() - timedelta(days=1)
Yesterday(d) == d - 1

GetUserStats(user_id) ==
  /\ last' = [NoCall EXCEPT
                !.op = "stats", !.result = "ok",
                !.isGoalSet = (ActiveGoals(goals, user_id) # {}),
                !.liveStreak = LiveStreakFrom(history, user_id, today),
                !.YesterdayMissedWorkout = ~CompletedOn(history, user_id, Yesterday(today))]
  /\ UNCHANGED <<today, users, plans, routines, schedule, history, goals, txn, quota>>

\* ---------------------------------------------------------- set_user_goal
\* user.CurrentWeight can be read: the User class maps WeightKg and no
\* CurrentWeight, so on a row loaded by the request the read raises
\* AttributeError unless a value is stored for the attribute
HasCurrentWeight(row) == row.CurrentWeight # NULL

\* existing_goal.Active = False on the row the query returned (NULL: no row)
SoftDeleted(gs, existing) ==
  IF existing = NULL THEN gs
  ELSE [gs EXCEPT ![existing].Active = FALSE]

SetUserGoal(user_id, payload) ==
  LET call == [NoCall EXCEPT !.op = "set_goal"]
      active == ActiveGoals(goals, user_id)
      goal_id == Len(goals) + 1
  IN IF user_id \notin DOMAIN users
       THEN /\ last' = [call EXCEPT !.result = "user_not_found"]
            /\ UNCHANGED <<today, users, plans, routines, schedule, history, goals, txn, quota>>
     ELSE IF ~HasCurrentWeight(users[user_id])
       \* AttributeError while the arguments of Goal(...) are evaluated: nothing
       \* was committed, closing the session discards existing_goal.Active = False
       THEN /\ last' = [call EXCEPT !.result = "attribute_error"]
            /\ UNCHANGED <<today, users, plans, routines, schedule, history, goals, txn, quota>>
     ELSE /\ \E existing \in (IF active = {} THEN {NULL} ELSE active) :
               goals' = Append(SoftDeleted(goals, existing),
                               NewGoal(goal_id, user_id, payload,
                                       users[user_id].CurrentWeight, TRUE))
          /\ last' = [call EXCEPT !.result = "ok", !.ret1 = goal_id]
          /\ UNCHANGED <<today, users, plans, routines, schedule, history, txn, quota>>

\* ------------------------------------------ get_user_workout_plan_by_date
\* faulty variant: the plan query without its UserId filter
CoversAnyUser(p, user_id, target_date) ==
  /\ p.StartDate <= target_date
  /\ p.EndDate >= target_date

\* the filter of the plan query: the user's plan whose range holds target_date
Covers(p, user_id, target_date) ==
  /\ p.UserId = user_id
  /\ p.StartDate <= target_date
  /\ p.EndDate >= target_date

\* faulty variant: the earliest plan that covers the date
PlanForDateOldest(ps, user_id, target_date) ==
  LET found == {i \in 1..Len(ps) : Covers(ps[i], user_id, target_date)}
  IN IF found = {} THEN NULL
     ELSE CHOOSE i \in found : \A j \in found : ps[i].CreatedAt <= ps[j].CreatedAt

\* .order_by(WorkoutPlan.CreatedAt.desc()).first(): NULL when no row matches
PlanForDate(ps, user_id, target_date) ==
  LET found == {i \in 1..Len(ps) : Covers(ps[i], user_id, target_date)}
  IN IF found = {} THEN NULL
     ELSE CHOOSE i \in found : \A j \in found : ps[j].CreatedAt <= ps[i].CreatedAt

\* faulty variant: the goal's numbers are not looked at
GoalCompleteAlways(goal) == TRUE

\* the goal carries the numbers the generator request needs
GoalComplete(goal) ==
  /\ Truthy(goal.TargetWeight)
  /\ Truthy(goal.TargetDurationInWeeks)
  /\ Truthy(goal.NoOfWorkoutDaysInWeek)

\* get_user_weight_history returns: it reads user.CurrentWeight of the user's
\* row when there is one
WeightHistoryReturns(user_id) ==
  user_id \in DOMAIN users => HasCurrentWeight(users[user_id])

\* faulty variant: the plan is committed before the request fails
GenerateThenFail(user_id, target_date) ==
  /\ plans' = Append(plans, NewPlan(Len(plans) + 1, user_id,
                                    WeekStart(today), WeekEnd(today)))
  /\ last' = [NoCall EXCEPT !.op = "get_plan", !.result = "value_error"]
  /\ UNCHANGED <<today, users, routines, schedule, history, goals, txn, quota>>

\* _generate_first_workout_plan_for_user, with the wrapping of its exceptions
\* by get_user_workout_plan_by_date. The weight history of an existing user
\* cannot be read (AttributeError, swallowed), which leaves weight_history
\* unbound where the generator request is built (UnboundLocalError); the call
\* of the generator after it would end in the TypeError of
\* save_ai_workout_plan(request.user_id, response), a function of one parameter.
\* ret2 of a failed request is the user the request was made for.
GenerateFirstWorkoutPlanForUser(user_id, target_date) ==
  LET call == [NoCall EXCEPT !.op = "get_plan", !.ret2 = user_id]
      active == ActiveGoals(goals, user_id)
      outcome ==
        IF user_id \notin DOMAIN users THEN [call EXCEPT !.result = "value_error"]
        ELSE IF active = {} THEN [call EXCEPT !.result = "value_error"]
        ELSE IF ~Truthy(users[user_id].HeightCm) \/ ~Truthy(users[user_id].WeightKg)
          THEN [call EXCEPT !.result = "value_error"]
        ELSE IF \E g \in active : ~GoalComplete(goals[g])
          THEN [call EXCEPT !.result = "value_error"]
        ELSE IF ~WeightHistoryReturns(user_id)
          THEN [call EXCEPT !.result = "error"]
        ELSE [call EXCEPT !.result = "value_error", !.generated = TRUE]
  IN /\ last' = outcome
     /\ UNCHANGED <<today, users, plans, routines, schedule, history, goals, txn, quota>>

GetUserWorkoutPlanByDate(user_id, target_date) ==
  LET workout_plan == PlanForDate(plans, user_id, target_date)
  IN IF workout_plan # NULL
       THEN /\ last' = [NoCall EXCEPT !.op = "get_plan", !.result = "ok",
                                      !.ret1 = plans[workout_plan].PlanId,
                                      !.ret2 = plans[workout_plan].UserId]
            /\ UNCHANGED <<today, users, plans, routines, schedule, history, goals, txn, quota>>
     ELSE GenerateFirstWorkoutPlanForUser(user_id, target_date)

Next ==
  \/ Tick
  \/ SaveAiWorkoutPlan
  \/ \E schedule_id \in ScheduleIdInputs : StartWorkoutSession(schedule_id)
  \/ \E schedule_id \in ScheduleIdInputs, user_id \in UserIdInputs,
        plan_id \in PlanIdInputs, routine_id \in RoutineIdInputs,
        today_weight \in WeightInputs :
       LogWorkoutCompletion(schedule_id, user_id, plan_id, routine_id, today_weight)
  \/ \E schedule_id_1 \in SwapIdInputs, schedule_id_2 \in SwapIdInputs :
       SwapRoutineMappings(schedule_id_1, schedule_id_2)
  \/ \E user_id \in UserIdInputs : GetUserStats(user_id)
  \/ \E user_id \in UserIdInputs, payload \in GoalPayloads :
       SetUserGoal(user_id, payload)
  \/ \E user_id \in UserIdInputs, target_date \in TargetDates :
       GetUserWorkoutPlanByDate(user_id, target_date)

Spec == Init /\ [][Next]_vars

\* --------------------------------------- requests that run at the same time
\* Each request runs on a session of its own (SessionLocal: no isolation level
\* is set, no row is locked, no query uses FOR UPDATE), so between what a
\* request reads and what it writes and commits another request may commit.
\* the runs with requests in flight: three plans without sessions; one plan
\* with one session and two completions
RaceQuotas ==
  { [plans |-> 3, routines |-> 0, entries |-> 0, history |-> 0,
     lastDay |-> FirstDay, goals |-> "none"],
    [plans |-> 1, routines |-> 1, entries |-> 1, history |-> 2,
     lastDay |-> FirstDay, goals |-> "none"] }

\* the request slot is free
Free(p) == txn[p].op \in {"idle", "done"}

\* log_workout_completion up to and including its status guard: the user and
\* schedule queries and the three raises
CompleteRead(p, schedule_id, user_id, plan_id, routine_id, today_weight) ==
  LET ended(result) == [NoTxn EXCEPT !.op = "done", !.result = result]
  IN /\ Free(p)
     /\ txn' = [txn EXCEPT ![p] =
          IF user_id \notin DOMAIN users THEN ended("user_not_found")
          ELSE IF ~Exists(schedule_id) THEN ended("not_found")
          ELSE IF ~CompleteAllowed(schedule[schedule_id].Status) THEN ended("invalid_state")
          ELSE [NoTxn EXCEPT !.op = "complete", !.schedule_id = schedule_id,
                             !.user_id = user_id, !.plan_id = plan_id,
                             !.routine_id = routine_id, !.today_weight = today_weight]]
     /\ UNCHANGED <<today, users, plans, routines, schedule, history, goals, last, quota>>

\* log_workout_completion after its status guard: the history record, the
\* weight, the status and the commit
CompleteWrite(p) ==
  LET t == txn[p]
  IN /\ t.op = "complete"
     /\ Len(history) < quota.history
     /\ history' = Append(history,
            NewHistory(Len(history) + 1, t.schedule_id, t.user_id, t.plan_id,
                       t.routine_id, t.today_weight, today))
     /\ users' = IF Truthy(t.today_weight)
                   THEN [users EXCEPT ![t.user_id] = UserAfterWeight(@, t.today_weight)]
                   ELSE users
     /\ schedule' = [schedule EXCEPT ![t.schedule_id] = Completed(@, today)]
     /\ txn' = [txn EXCEPT ![p] = [t EXCEPT !.op = "done", !.result = "ok"]]
     /\ UNCHANGED <<today, plans, routines, goals, last, quota>>

\* save_ai_workout_plan up to and including the existing-plan query
SaveRead(p, user_id) ==
  LET matches == {i \in 1..Len(plans) :
                    Overlaps(plans[i], user_id, WeekStart(today), WeekEnd(today))}
  IN /\ Free(p)
     /\ IF ~Truthy(user_id)
          THEN txn' = [txn EXCEPT ![p] = [NoTxn EXCEPT !.op = "done", !.result = "value_error"]]
          ELSE \E existing \in (IF matches = {} THEN {NULL} ELSE matches) :
                 txn' = [txn EXCEPT ![p] = [NoTxn EXCEPT !.op = "save", !.user_id = user_id,
                                                         !.existing = existing]]
     /\ UNCHANGED <<today, users, plans, routines, schedule, history, goals, last, quota>>

\* save_ai_workout_plan after the query: the deactivation of the row found,
\* the inserts and the commit
SaveWrite(p, names, items) ==
  LET t == txn[p]
      plan_id == Len(plans) + 1
  IN /\ t.op = "save"
     /\ Len(plans) < quota.plans
     /\ plans' = Append(Deactivate(plans, t.existing),
                        NewPlan(plan_id, t.user_id, WeekStart(today), WeekEnd(today)))
     /\ routines' = routines \o NewRoutines(plan_id, Len(routines), names)
     /\ schedule' = schedule \o NewEntries(plan_id, Len(schedule), Len(routines), names, items)
     /\ txn' = [txn EXCEPT ![p] = [t EXCEPT !.op = "done", !.result = "ok"]]
     /\ UNCHANGED <<today, users, history, goals, last, quota>>

RaceInit ==
  /\ quota \in RaceQuotas
  /\ today = FirstDay
  /\ users = UsersAtStart(quota.goals)
  /\ plans = <<>>
  /\ routines = <<>>
  /\ schedule = <<>>
  /\ history = <<>>
  /\ last = NoCall
  /\ goals = GoalsAtStart(quota.goals)
  /\ txn = [p \in Procs |-> NoTxn]

RaceNext ==
  \/ \E p \in Procs, user_id \in PlanOwners : SaveRead(p, user_id)
  \/ \E p \in Procs :
       \E names \in SeqsUpTo(RoutineNames, quota.routines - Len(routines)) :
         \E items \in SeqsUpTo(ScheduleItems, quota.entries - Len(schedule)) :
           SaveWrite(p, names, items)
  \/ \E schedule_id \in ScheduleIdInputs : StartWorkoutSession(schedule_id)
  \/ \E p \in Procs, schedule_id \in ScheduleIdInputs, user_id \in UserIdInputs,
        plan_id \in PlanIdInputs, routine_id \in RoutineIdInputs,
        today_weight \in WeightInputs :
       CompleteRead(p, schedule_id, user_id, plan_id, routine_id, today_weight)
  \/ \E p \in Procs : CompleteWrite(p)

RaceSpec == RaceInit /\ [][RaceNext]_vars

\* ------------------------------------------------ the parsing runs
\* weekly_schedule items in every spelling the parsing distinguishes: days in
\* lower, upper and mixed case, an unknown day, a day with a blank, no day;
\* statuses likewise; routine names that exist, one in another case, none
ParseItems ==
  { [day_of_week |-> "sunday",  routine_name |-> "Push",  status |-> "pending"],
    [day_of_week |-> "MONDAY",  routine_name |-> "Legs",  status |-> "Completed"],
    [day_of_week |-> "tuesDay", routine_name |-> "Push",  status |-> "Started"],
    [day_of_week |-> "Funday",  routine_name |-> "push",  status |-> "bogus"],
    [day_of_week |-> " friday", routine_name |-> NoneStr, status |-> "skipped"],
    [day_of_week |-> NoneStr,   routine_name |-> "Legs",  status |-> NoneStr],
    [day_of_week |-> "tuesDay", routine_name |-> NoneStr, status |-> "bogus"] }

\* two plans, two routines and two schedule items in all
ParseQuotas ==
  { [plans |-> 2, routines |-> 2, entries |-> 2, history |-> 0,
     lastDay |-> FirstDay, goals |-> "none"] }

ParseInit ==
  /\ quota \in ParseQuotas
  /\ today = FirstDay
  /\ users = UsersAtStart(quota.goals)
  /\ plans = <<>>
  /\ routines = <<>>
  /\ schedule = <<>>
  /\ history = <<>>
  /\ last = NoCall
  /\ goals = GoalsAtStart(quota.goals)
  /\ txn = [p \in Procs |-> NoTxn]

ParseNext ==
  \E user_id \in Users :
    \E names \in SeqsUpTo(RoutineNames, quota.routines - Len(routines)) :
      \E items \in SeqsUpTo(ParseItems, quota.entries - Len(schedule)) :
        SaveCommitted(user_id, names, items)

ParseSpec == ParseInit /\ [][ParseNext]_vars

\* ------------------------------------------------ the statistics runs
\* completion records as log_workout_completion writes them, in the order of
\* their dates, of both users, over the days up to StatsDay
StatsHistories ==
  LET keys == {k \in SeqsUpTo([UserId : Users, Date : 0..StatsDay], MaxStatsHistory) :
                 \A i \in 1..(Len(k) - 1) : k[i].Date <= k[i + 1].Date}
  IN {[i \in 1..Len(k) |-> NewHistory(i, 1, k[i].UserId, 1, 1, NULL, k[i].Date)] : k \in keys}

StatsInit ==
  /\ quota \in StatsQuotas
  /\ today = StatsDay
  /\ users = UsersAtStart(quota.goals)
  /\ plans = <<>>
  /\ routines = <<>>
  /\ schedule = <<>>
  /\ history \in StatsHistories
  /\ last = NoCall
  /\ goals = GoalsAtStart(quota.goals)
  /\ txn = [p \in Procs |-> NoTxn]

StatsNext ==
  \/ Tick
  \/ \E user_id \in UserIdInputs : GetUserStats(user_id)

StatsSpec == StatsInit /\ [][StatsNext]_vars

\* ================================================================ claims
\* active plans of a user whose range shares a date with [start_date, end_date]
ActiveInWindow(ps, user_id, start_date, end_date) ==
  {i \in 1..Len(ps) : /\ ps[i].UserId = user_id
                      /\ ps[i].IsActive
                      /\ ps[i].StartDate <= end_date
                      /\ ps[i].EndDate >= start_date}

\* C1: no user has two active plans whose [StartDate, EndDate] ranges share a date.
NoOverlappingActivePlans ==
  \A i, j \in 1..Len(plans) :
    (i # j /\ plans[i].UserId = plans[j].UserId /\ plans[i].IsActive /\ plans[j].IsActive)
      => ~(plans[i].StartDate <= plans[j].EndDate /\ plans[j].StartDate <= plans[i].EndDate)

\* a user has three plans for one week and a plan for another week
WitnessOverlap ==
  \E i, j, k \in 1..Len(plans) :
    /\ i < j /\ j < k
    /\ plans[i].UserId = plans[j].UserId /\ plans[j].UserId = plans[k].UserId
    /\ plans[i].StartDate = plans[j].StartDate
    /\ plans[k].StartDate # plans[j].StartDate
    /\ plans[j].IsActive /\ plans[k].IsActive /\ ~plans[i].IsActive

\* C2: a successful save for a user with an active plan A in the new window keeps
\* A as a row with IsActive = false, leaves the new plan B active, and the user
\* has exactly one active plan in the window before and after the call.
RegenerationKeepsOneActive ==
  [][ \A u \in Users :
        LET start_date == WeekStart(today)
            end_date == WeekEnd(today)
            before == ActiveInWindow(plans, u, start_date, end_date)
            after == ActiveInWindow(plans', u, start_date, end_date)
            b == Len(plans')
        IN (/\ Len(plans') = Len(plans) + 1
            /\ plans'[b].UserId = u
            /\ before # {})
           => /\ last'.op = "save" /\ last'.result = "ok" /\ last'.ret1 = b
              /\ Cardinality(before) = 1
              /\ Cardinality(after) = 1
              /\ after = {b}
              /\ \A a \in before : plans'[a] = [plans[a] EXCEPT !.IsActive = FALSE]
              /\ \A i \in 1..Len(plans) : i \notin before => plans'[i] = plans[i]
    ]_vars

\* the last request replaced a plan while another user holds an active plan
\* for the same week
WitnessRegeneration ==
  /\ last.op = "save" /\ last.result = "ok"
  /\ \E a \in 1..Len(plans) :
       /\ a # last.ret1
       /\ plans[a].UserId = plans[last.ret1].UserId
       /\ plans[a].StartDate = plans[last.ret1].StartDate
       /\ ~plans[a].IsActive
  /\ \E o \in 1..Len(plans) :
       /\ plans[o].UserId # plans[last.ret1].UserId
       /\ plans[o].StartDate = plans[last.ret1].StartDate
       /\ plans[o].IsActive

\* C3 (as claimed): every schedule entry has IsRestDay = (RoutineId is None).
RestDayMatchesRoutine ==
  \A i \in 1..Len(schedule) : schedule[i].IsRestDay = (schedule[i].RoutineId = NULL)

\* C4: starting a pending entry sets its status to started and changes no other
\* field of it and no other row.
StartChangesOnlyStatus ==
  [][ \A sid \in 1..Len(schedule) :
        (/\ last'.op = "start"
         /\ StartWorkoutSession(sid)
         /\ schedule[sid].Status = ScheduleStatus["PENDING"])
        => /\ last'.result = "ok" /\ last'.ret1 = sid
           /\ schedule'[sid].Status = ScheduleStatus["STARTED"]
           /\ schedule' = [schedule EXCEPT ![sid].Status = ScheduleStatus["STARTED"]]
           /\ UNCHANGED <<users, plans, routines, history>>
    ]_vars

\* the last request started an entry that holds a routine, next to another entry
WitnessStart ==
  /\ last.op = "start" /\ last.result = "ok"
  /\ Len(schedule) = 2
  /\ schedule[last.ret1].Status = ScheduleStatus["STARTED"]
  /\ schedule[last.ret1].RoutineId # NULL
  /\ schedule[last.ret1].CompletedAt = NULL

\* C5 (as claimed): starting an entry whose status is not pending fails with an
\* invalid-state error and leaves the entry unchanged.
StartRejectsNonPending ==
  [][ \A sid \in 1..Len(schedule) :
        (/\ last'.op = "start"
         /\ StartWorkoutSession(sid)
         /\ schedule[sid].Status # ScheduleStatus["PENDING"])
        => /\ last'.result = "invalid_state"
           /\ schedule'[sid] = schedule[sid]
    ]_vars

\* C6 (as claimed): completing a started entry for an existing user adds one
\* history record (IsCompleted, dated today, the given schedule id), sets the
\* entry to completed with CompletedAt set, and sets the user's CurrentWeight to
\* today_weight when one is given (and leaves it otherwise).
CompleteRecordsAndUpdatesWeight ==
  [][ \A sid \in 1..Len(schedule), uid \in Users, pid \in PlanIdInputs,
         rid \in RoutineIdInputs, w \in WeightInputs :
        (/\ last'.op = "complete"
         /\ schedule[sid].Status = ScheduleStatus["STARTED"]
         /\ LogWorkoutCompletion(sid, uid, pid, rid, w))
        => /\ last'.result = "ok"
           /\ Len(history') = Len(history) + 1
           /\ SubSeq(history', 1, Len(history)) = history
           /\ history'[Len(history')].IsCompleted
           /\ history'[Len(history')].Date = today
           /\ history'[Len(history')].ScheduleId = sid
           /\ schedule'[sid].Status = ScheduleStatus["COMPLETED"]
           /\ schedule'[sid].CompletedAt # NULL
           /\ (w # NULL => users'[uid].CurrentWeight = w)
           /\ (w = NULL => users'[uid].CurrentWeight = users[uid].CurrentWeight)
    ]_vars

\* C7: completing an entry whose status is not started fails with an
\* invalid-state error and writes nothing.
CompleteRejectsNonStarted ==
  [][ \A sid \in 1..Len(schedule), uid \in Users, pid \in PlanIdInputs,
         rid \in RoutineIdInputs, w \in WeightInputs :
        (/\ last'.op = "complete"
         /\ schedule[sid].Status # ScheduleStatus["STARTED"]
         /\ LogWorkoutCompletion(sid, uid, pid, rid, w))
        => /\ last'.result = "invalid_state"
           /\ UNCHANGED <<users, plans, routines, schedule, history>>
    ]_vars

\* a completion was refused while a completion could still have been recorded
WitnessCompleteRejected ==
  /\ last.op = "complete" /\ last.result = "invalid_state"
  /\ Len(history) < quota.history
  /\ \E i \in 1..Len(schedule) : schedule[i].Status = ScheduleStatus["PENDING"]
  /\ \E i \in 1..Len(schedule) : schedule[i].Status = ScheduleStatus["SWAPPED"]

\* C8: after a swap of two existing entries each holds the RoutineId the other
\* held before, and both have status swapped.
SwapExchangesRoutines ==
  [][ \A a, b \in 1..Len(schedule) :
        (last'.op = "swap" /\ SwapRoutineMappings(a, b))
        => /\ last'.result = "ok"
           /\ schedule'[a].RoutineId = schedule[b].RoutineId
           /\ schedule'[b].RoutineId = schedule[a].RoutineId
           /\ schedule'[a].Status = ScheduleStatus["SWAPPED"]
           /\ schedule'[b].Status = ScheduleStatus["SWAPPED"]
    ]_vars

\* the last request swapped a workout day with a rest day
WitnessSwap ==
  /\ last.op = "swap" /\ last.result = "ok"
  /\ last.sid1 # last.sid2
  /\ last.cap1 # NULL /\ last.cap2 = NULL
  /\ schedule[last.sid1].RoutineId = NULL
  /\ schedule[last.sid2].RoutineId = last.cap1

\* C9: a swap of A and B directly followed by a swap of A and B gives both their
\* original RoutineId back; both have status swapped after either call.
SwapTwiceRestores ==
  [][ (/\ last.op = "swap" /\ last.result = "ok"
       /\ last'.op = "swap" /\ last'.result = "ok"
       /\ last'.sid1 = last.sid1 /\ last'.sid2 = last.sid2)
      => /\ schedule'[last.sid1].RoutineId = last.cap1
         /\ schedule'[last.sid2].RoutineId = last.cap2
         /\ \A i \in {last.sid1, last.sid2} :
              /\ schedule[i].Status = ScheduleStatus["SWAPPED"]
              /\ schedule'[i].Status = ScheduleStatus["SWAPPED"]
    ]_vars

\* a workout day and a rest day were swapped and swapped back: the last swap
\* captured the exchanged routines and both rows again agree with their
\* rest-day flag, which no swap writes
WitnessSwapTwice ==
  /\ last.op = "swap" /\ last.result = "ok"
  /\ last.sid1 # last.sid2
  /\ (last.cap1 = NULL) # (last.cap2 = NULL)
  /\ \A i \in {last.sid1, last.sid2} :
       /\ schedule[i].Status = ScheduleStatus["SWAPPED"]
       /\ schedule[i].IsRestDay = (schedule[i].RoutineId = NULL)

StreakIsConsecutiveRun ==
  [][ \A u \in UserIdInputs :
        (last'.op = "stats" /\ GetUserStats(u))
        => LET has(k) == \E i \in 1..Len(history) :
                           /\ history[i].UserId = u
                           /\ history[i].IsCompleted
                           /\ history[i].Date = today - k
               runs == {n \in 0..Len(history) : \A k \in 0..(n - 1) : has(k)}
           IN /\ last'.liveStreak \in runs
              /\ \A n \in runs : n <= last'.liveStreak
              /\ (~has(0) => last'.liveStreak = 0)
    ]_vars

\* a streak of two days was reported while the day before it holds a record of
\* the other user only
WitnessStreak ==
  /\ last.op = "stats" /\ last.liveStreak = 2
  /\ Len(history) = 3
  /\ history[1].Date = today - 2
  /\ history[2].Date = today - 1 /\ history[3].Date = today
  /\ history[2].UserId = history[3].UserId
  /\ history[1].UserId # history[2].UserId

\* C12: YesterdayMissedWorkout is true iff the user has no completed record dated
\* yesterday, isGoalSet is true iff the user has a goal with Active = true, and
\* a streak of 2 or more comes with YesterdayMissedWorkout = false.
StatsFlags ==
  [][ \A u \in UserIdInputs :
        (last'.op = "stats" /\ GetUserStats(u))
        => /\ last'.YesterdayMissedWorkout =
                ~(\E i \in 1..Len(history) : /\ history[i].UserId = u
                                             /\ history[i].IsCompleted
                                             /\ history[i].Date = today - 1)
           /\ last'.isGoalSet = (\E g \in 1..Len(goals) : goals[g].UserId = u /\ goals[g].Active)
           /\ (last'.liveStreak >= 2 => ~last'.YesterdayMissedWorkout)
    ]_vars

\* a user with an active goal worked out today and not yesterday, when only
\* the other user did
WitnessStatsFlags ==
  /\ last.op = "stats"
  /\ last.isGoalSet /\ last.YesterdayMissedWorkout /\ last.liveStreak = 1
  /\ \E i, j \in 1..Len(history) :
       /\ history[i].Date = today - 1 /\ history[j].Date = today
       /\ history[i].UserId # history[j].UserId

HistoryIsAppendOnly ==
  [][ /\ Len(history') >= Len(history)
      /\ SubSeq(history', 1, Len(history)) = history
      /\ (history' # history
            => /\ last'.op = "complete" /\ last'.result = "ok"
               /\ Len(history') = Len(history) + 1)
      /\ (last'.op \in {"start", "swap"}
            => \A u \in Users, d \in 0..MaxDay :
                 /\ LiveStreakFrom(history', u, d) = LiveStreakFrom(history, u, d)
                 /\ CompletedOn(history', u, d - 1) = CompletedOn(history, u, d - 1))
    ]_vars

\* an entry was started or swapped after a completion that gives its user a
\* streak of one day
WitnessHistoryKept ==
  /\ last.op \in {"start", "swap"} /\ last.result = "ok"
  /\ Len(history) = 1
  /\ LiveStreakFrom(history, history[1].UserId, today) = 1

\* C15: a plan request for a date that a plan of the user covers returns a plan
\* of that user covering the date, the most recently created one, without a
\* call of the plan generator and without a write; a request that follows for
\* the same user and a date inside the returned plan's window returns the same
\* PlanId.
ExistingPlanIsReturned ==
  [][ \A u \in UserIdInputs, d \in TargetDates :
        (/\ last'.op = "get_plan"
         /\ GetUserWorkoutPlanByDate(u, d))
        => /\ (\E i \in 1..Len(plans) : /\ plans[i].UserId = u
                                         /\ plans[i].StartDate <= d
                                         /\ d <= plans[i].EndDate)
                => /\ last'.result = "ok" /\ ~last'.generated
                   /\ last'.ret1 \in 1..Len(plans) /\ last'.ret2 = u
                   /\ plans[last'.ret1].UserId = u
                   /\ plans[last'.ret1].StartDate <= d
                   /\ d <= plans[last'.ret1].EndDate
                   /\ \A i \in 1..Len(plans) :
                        (/\ plans[i].UserId = u
                         /\ plans[i].StartDate <= d
                         /\ d <= plans[i].EndDate)
                        => plans[i].CreatedAt <= plans[last'.ret1].CreatedAt
                   /\ UNCHANGED <<users, plans, routines, schedule, history, goals>>
           /\ (/\ last.op = "get_plan" /\ last.result = "ok"
               /\ last.ret2 = u
               /\ plans[last.ret1].StartDate <= d
               /\ d <= plans[last.ret1].EndDate)
                => /\ last'.result = "ok" /\ ~last'.generated
                   /\ last'.ret1 = last.ret1
    ]_vars

\* the plan that replaced an earlier plan of the same week was returned while
\* another user holds a still newer plan for that week
WitnessExistingPlan ==
  /\ last.op = "get_plan" /\ last.result = "ok"
  /\ \E a, o \in 1..Len(plans) :
       /\ a < last.ret1 /\ last.ret1 < o
       /\ plans[a].UserId = last.ret2
       /\ plans[a].StartDate = plans[last.ret1].StartDate
       /\ plans[o].UserId # last.ret2
       /\ plans[o].StartDate = plans[last.ret1].StartDate

OneEntryPerPlanDay ==
  \A i, j \in 1..Len(schedule) :
    (schedule[i].PlanId = schedule[j].PlanId /\ schedule[i].DayOfWeek = schedule[j].DayOfWeek)
      => i = j

\* C19: a completion for a user_id that does not exist fails with the user
\* not-found error, also when the schedule_id does not exist either; for an
\* existing user and a schedule_id that does not exist it fails with the
\* schedule not-found error; neither writes anything.
CompleteRejectsUnknownIds ==
  [][ \A sid \in ScheduleIdInputs, uid \in UserIdInputs, pid \in PlanIdInputs,
         rid \in RoutineIdInputs, w \in WeightInputs :
        (/\ last'.op = "complete"
         /\ (uid \notin Users \/ sid \notin 1..Len(schedule))
         /\ LogWorkoutCompletion(sid, uid, pid, rid, w))
        => /\ last'.result = (IF uid \notin Users THEN "user_not_found" ELSE "not_found")
           /\ UNCHANGED <<users, plans, routines, schedule, history, goals>>
    ]_vars

\* a completion was refused for its user while a started entry was waiting and
\* a record could still have been written
WitnessCompleteUnknownUser ==
  /\ last.op = "complete" /\ last.result = "user_not_found"
  /\ Len(history) < quota.history
  /\ \E i \in 1..Len(schedule) : schedule[i].Status = ScheduleStatus["STARTED"]

\* C20: a swap with an id that does not exist fails with a not-found error that
\* names schedule_id_1 when it is missing (also when both are) and schedule_id_2
\* otherwise, and changes nothing: an existing entry keeps its RoutineId and
\* its status.
SwapRejectsMissingEntry ==
  [][ \A a, b \in SwapIdInputs :
        (/\ last'.op = "swap"
         /\ (a \notin 1..Len(schedule) \/ b \notin 1..Len(schedule))
         /\ SwapRoutineMappings(a, b))
        => /\ last'.result = "not_found"
           /\ last'.ret1 = (IF a \notin 1..Len(schedule) THEN a ELSE b)
           /\ UNCHANGED <<users, plans, routines, schedule, history, goals>>
    ]_vars

\* a swap was refused for the second of the two ids that do not exist while a
\* pending entry with a routine exists
WitnessSwapMissing ==
  /\ last.op = "swap" /\ last.result = "not_found"
  /\ last.ret1 = Len(schedule) + 2
  /\ \E i \in 1..Len(schedule) :
       /\ schedule[i].RoutineId # NULL
       /\ schedule[i].Status = ScheduleStatus["PENDING"]

\* C21 (as claimed): once the status of a schedule entry is completed or
\* skipped, no start and no completion request changes it.
TerminalStatusesStay ==
  [][ \A sid \in 1..Len(schedule) :
        (/\ last'.op \in {"start", "complete"}
         /\ schedule[sid].Status \in {ScheduleStatus["COMPLETED"], ScheduleStatus["SKIPPED"]})
        => schedule'[sid].Status = schedule[sid].Status
    ]_vars

\* C22 (as claimed): every schedule entry with status completed has a CompletedAt
\* and exactly one completion record naming its ScheduleId, and no schedule
\* entry has more than one completion record.
OneRecordPerCompletedEntry ==
  \A sid \in 1..Len(schedule) :
    LET records == {i \in 1..Len(history) : history[i].ScheduleId = sid}
    IN /\ Cardinality(records) <= 1
       /\ schedule[sid].Status = ScheduleStatus["COMPLETED"]
            => (schedule[sid].CompletedAt # NULL /\ Cardinality(records) = 1)

\* C23 (as claimed): of two completion requests for the same started entry
\* that run at the same time at most one succeeds, and one completion record
\* is written for that session.
RacingCompletionsOneWins ==
  \A p, q \in Procs :
    (/\ p # q
     /\ txn[p].op = "done" /\ txn[p].result = "ok" /\ txn[p].schedule_id # NULL
     /\ txn[q].op = "done" /\ txn[q].result = "ok"
     /\ txn[q].schedule_id = txn[p].schedule_id)
    => Cardinality({i \in 1..Len(history) : history[i].ScheduleId = txn[p].schedule_id}) = 1

\* C29 (as claimed): also when two plan creations for the same user run at the
\* same time, no date is covered by more than one active plan of that user.
RacingSavesKeepOneActive ==
  \A user_id \in Users, d \in 0..(MaxDay + 6) :
    Cardinality({i \in 1..Len(plans) :
                   /\ plans[i].UserId = user_id
                   /\ plans[i].IsActive
                   /\ plans[i].StartDate <= d
                   /\ d <= plans[i].EndDate}) <= 1

\* C24: a plan creation is all or nothing. A creation that ends in an
\* exception (a missing user_id included) changes no plan, routine or schedule
\* row; a creation that succeeds adds the plan together with its routines and
\* entries; and an active plan turns inactive only in a step that also adds
\* the new active plan.
SaveIsAllOrNothing ==
  [][ (last'.op = "save" /\ SaveAiWorkoutPlan) =>
        /\ last'.result # "ok" => UNCHANGED <<plans, routines, schedule>>
        /\ last'.result = "ok" =>
              /\ Len(plans') = Len(plans) + 1
              /\ plans'[Len(plans')].IsActive
              /\ \A i \in (Len(routines) + 1)..Len(routines') :
                    routines'[i].PlanId = Len(plans')
              /\ \A i \in (Len(schedule) + 1)..Len(schedule') :
                    schedule'[i].PlanId = Len(plans')
        /\ \A i \in 1..Len(plans) :
              (plans[i].IsActive /\ ~plans'[i].IsActive)
                => (Len(plans') = Len(plans) + 1 /\ plans'[Len(plans')].IsActive)
    ]_vars

\* a creation failed after it had flushed the deactivation of an active plan,
\* and that plan is active
WitnessSaveRolledBack ==
  /\ last.op = "save"
  /\ last.result = "error"
  /\ last.cap1 # NULL
  /\ plans[last.cap1].IsActive

\* C25: validation precedes generation. A plan request of a user without a
\* plan for the date, who has no active goal, or no height or weight, or whose
\* active goal lacks the target weight, the duration or the workout days,
\* fails with a validation error; the generator is not invoked and no row is
\* created or changed.
ValidationPrecedesGeneration ==
  [][ \A user_id \in Users, target_date \in TargetDates :
        LET active == {g \in 1..Len(goals) : goals[g].UserId = user_id /\ goals[g].Active}
            unmeasured == users[user_id].HeightCm \in {NULL, 0}
                            \/ users[user_id].WeightKg \in {NULL, 0}
            partial == \E g \in active :
                         \/ goals[g].TargetWeight \in {NULL, 0}
                         \/ goals[g].TargetDurationInWeeks \in {NULL, 0}
                         \/ goals[g].NoOfWorkoutDaysInWeek \in {NULL, 0}
        IN (/\ last'.op = "get_plan"
            /\ GetUserWorkoutPlanByDate(user_id, target_date)
            /\ \A i \in 1..Len(plans) : ~Covers(plans[i], user_id, target_date)
            /\ (active = {} \/ unmeasured \/ partial))
           => /\ last'.result = "value_error"
              /\ ~last'.generated
              /\ UNCHANGED <<users, plans, routines, schedule, history, goals>>
    ]_vars

\* a user with an active goal but without height and weight asked for a plan
\* and was refused
WitnessUnmeasuredRefused ==
  /\ last.op = "get_plan"
  /\ last.result = "value_error"
  /\ ~last.generated
  /\ last.ret2 \in Users
  /\ ActiveGoals(goals, last.ret2) # {}
  /\ users[last.ret2].HeightCm = NULL

\* C26: schedule items are parsed leniently. The day is matched without regard
\* to case and is Monday when it is missing or not a day; a status that is not
\* a status is pending; an item whose routine name is missing or names no
\* routine of the response gets no routine and is a rest day; an item that
\* names a routine gets the id of a routine of that name of the same plan.
LenientScheduleParsing ==
  [][ \A user_id \in Users :
        \A names \in SeqsUpTo(RoutineNames, quota.routines - Len(routines)) :
          \A items \in SeqsUpTo(ParseItems, quota.entries - Len(schedule)) :
            SaveCommitted(user_id, names, items) =>
              \A i \in 1..Len(items) :
                LET row == schedule'[Len(schedule) + i]
                    day == items[i].day_of_week
                    status == items[i].status
                    name == items[i].routine_name
                    named == {r \in 1..Len(routines') :
                                /\ routines'[r].PlanId = row.PlanId
                                /\ routines'[r].RoutineName = name}
                IN /\ row.PlanId = Len(plans')
                   /\ row.DayOfWeek =
                        (CASE day \in {"sunday"} -> "Sunday"
                           [] day \in {"tuesDay"} -> "Tuesday"
                           [] OTHER -> "Monday")
                   /\ row.Status =
                        (CASE status \in {"Completed"} -> "completed"
                           [] status \in {"Started"} -> "started"
                           [] status \in {"skipped"} -> "skipped"
                           [] OTHER -> "pending")
                   /\ (name = NoneStr \/ named = {})
                        => (row.RoutineId = NULL /\ row.IsRestDay)
                   /\ (name # NoneStr /\ named # {})
                        => (row.RoutineId \in {routines'[r].RoutineId : r \in named}
                            /\ ~row.IsRestDay)
    ]_vars

\* a plan was saved with an item for a mixed-case day that names a routine of
\* the plan and an item without a routine
WitnessLenientParsing ==
  /\ last.op = "save" /\ last.result = "ok"
  /\ \E a, b \in 1..Len(schedule) :
       /\ schedule[a].PlanId = last.ret1 /\ schedule[b].PlanId = last.ret1
       /\ schedule[a].DayOfWeek = "Tuesday" /\ schedule[a].Status = "started"
       /\ schedule[a].RoutineId # NULL
       /\ schedule[b].DayOfWeek = "Monday" /\ schedule[b].Status = "skipped"
       /\ schedule[b].RoutineId = NULL /\ schedule[b].IsRestDay

\* C27 (as claimed): an entry that has a routine has a routine of its own
\* plan, also after swaps between any two existing entries.
RoutineBelongsToEntryPlan ==
  \A e \in 1..Len(schedule) :
    schedule[e].RoutineId # NULL =>
      \E r \in 1..Len(routines) :
        /\ routines[r].RoutineId = schedule[e].RoutineId
        /\ routines[r].PlanId = schedule[e].PlanId

\* C28: the plan lookup never prefers a superseded plan. When the user has an
\* active plan that covers the date, the plan request returns an active plan
\* of that user covering the date.
LookupReturnsActivePlan ==
  [][ \A u \in Users, d \in TargetDates :
        (/\ last'.op = "get_plan"
         /\ GetUserWorkoutPlanByDate(u, d)
         /\ \E i \in 1..Len(plans) : plans[i].IsActive /\ Covers(plans[i], u, d))
        => /\ last'.result = "ok"
           /\ plans[last'.ret1].IsActive
           /\ Covers(plans[last'.ret1], u, d)
    ]_vars

\* the active plan was returned for a week in which the user also has a
\* superseded plan
WitnessActiveOverSuperseded ==
  /\ last.op = "get_plan" /\ last.result = "ok"
  /\ plans[last.ret1].IsActive
  /\ \E a \in 1..Len(plans) :
       /\ ~plans[a].IsActive
       /\ plans[a].UserId = plans[last.ret1].UserId
       /\ plans[a].StartDate = plans[last.ret1].StartDate
       /\ plans[a].EndDate = plans[last.ret1].EndDate

====
